---- MODULE Spec2Model ----
(***************************************************************************)
(* sRow-motion: weekday-gated, hash-verified move of a directory tree.     *)
(* The model follows DirectoryDataTransferService (validate, transfer),    *)
(* FileSystem (recursive copy with hash verification, top-level name       *)
(* comparison, recursive clear) and the two ways the service is driven:    *)
(* main.rs (validate()?.transfer()) and the unit tests (transfer() called  *)
(* directly on a prepared destination).                                    *)
(***************************************************************************)
EXTENDS Integers, Sequences, FiniteSets, TLC

\* ------------------------------------------------------------------ bounds
MaxDepth == 2
MaxEntries == 3
MaxDstEntries == 1

\* ------------------------------------------------------- file system values
Names == {"a", "b"}
\* the order Vec<String>::sort gives the names
NameOrder == <<"a", "b">>
Contents == {"x", "y"}
Kinds == {"dir"} \cup Contents

RECURSIVE PathsOfLen(_)
PathsOfLen(n) ==
    IF n = 1 THEN {<<x>> : x \in Names}
    ELSE {Append(p, x) : p \in PathsOfLen(n - 1), x \in Names}

Paths == UNION {PathsOfLen(n) : n \in 1..MaxDepth}

Parent(p) == SubSeq(p, 1, Len(p) - 1)

EmptyTree == [p \in Paths |-> "none"]

ParentIsDir(t, p) == Len(p) = 1 \/ t[Parent(p)] = "dir"

RECURSIVE TreesUpTo(_)
TreesUpTo(n) ==
    IF n = 0 THEN {EmptyTree}
    ELSE LET S == TreesUpTo(n - 1)
         IN  S \cup UNION {
                 {[t EXCEPT ![p] = k] :
                      p \in {q \in Paths : t[q] = "none" /\ ParentIsDir(t, q)},
                      k \in Kinds} : t \in S}

\* names of the direct entries of directory d (<<>> is the root) in tree t
Children(t, d) ==
    IF Len(d) >= MaxDepth THEN {}
    ELSE {n \in Names : t[Append(d, n)] # "none"}

\* sha2::Sha256 rendered as lowercase hex (the first 8 hex digits are kept)
Sha256Hex == [x |-> "2d711642", y |-> "a1fce436"]

\* the digest of no input at all
calculate_hash_of_nothing(c) == "e3b0c442"
\* file_system.rs:39-53  every chunk read from the file goes into the hasher
calculate_hash_from_file_content(c) == Sha256Hex[c]

HashesDifferNever(entry_hash, dest_hash) == FALSE
\* file_system.rs:28  if entry_hash != dest_hash
HashesDiffer(entry_hash, dest_hash) == entry_hash # dest_hash

is_directory_empty_always(t) == TRUE
\* file_system.rs:60-63  entries.next().is_none()
is_directory_empty(t) == Children(t, <<>>) = {}

list_relative_paths_recursive(t) == {p \in Paths : t[p] # "none"}
\* file_system.rs:71-84  relative names of the immediate entries, sorted
list_relative_paths(t) ==
    SelectSeq(NameOrder, LAMBDA n : n \in Children(t, <<>>))

verify_first_within_second(t1, t2) ==
    \A i \in 1..Len(list_relative_paths(t1)) :
        \E j \in 1..Len(list_relative_paths(t2)) :
            list_relative_paths(t1)[i] = list_relative_paths(t2)[j]
verify_with_contents(t1, t2) ==
    /\ list_relative_paths(t1) = list_relative_paths(t2)
    /\ \A n \in Children(t1, <<>>) : t1[<<n>>] = t2[<<n>>]
\* file_system.rs:65-69
verify_directory_contents_match(t1, t2) ==
    list_relative_paths(t1) = list_relative_paths(t2)

\* ------------------------------------------------------------------ weekday
\* weekday.rs:6-14  enum discriminants
WeekDayValue ==
    [Sunday |-> 0, Monday |-> 1, Tuesday |-> 2, Wednesday |-> 3,
     Thursday |-> 4, Friday |-> 5, Saturday |-> 6]
WeekDays == DOMAIN WeekDayValue
\* num_days_from_sunday() of the dates the service is run at
NowDays == {1, 4}

matches_weekday_always(w, d) == TRUE
\* weekday.rs:17-19
matches_weekday(w, d) == d = WeekDayValue[w]

\* ------------------------------------------------------ nodes of the disk
\* what a path names: nothing, a file, or a directory with its entries; the
\* entries of the configured source and destination directories are the
\* trees src and dst, tree holds the entries of any other directory
AbsentNode == [kind |-> "absent", readonly |-> FALSE, tree |-> EmptyTree]

NewDirectory(ro) == [kind |-> "dir", readonly |-> ro, tree |-> EmptyTree]

\* the directories the service tests configure
\* (directory_data_transfer_service.rs:81-116): a read-only source and a
\* destination that construction has created
TestConfig ==
    [source_directory_path |-> <<"/", "s", "o", "u", "r", "c", "e">>,
     dest_directory_path |-> <<"/", "d", "e", "s", "t", "/", "h", "o", "g", "e">>]

TestDisk ==
    (TestConfig.source_directory_path :> NewDirectory(TRUE))
        @@ (TestConfig.dest_directory_path :> NewDirectory(FALSE))

\* ------------------------------------------------------------------- state
VARIABLES
    src,        \* source tree
    dst,        \* destination tree
    src0,       \* source tree when the service was created
    dst0,       \* destination tree when the service was created
    weekday,    \* config.weekday
    now,        \* weekday number of self.now
    caller,     \* "main": validate()?.transfer(); "test": transfer() alone
    pc,         \* position of the run
    stack,      \* frames of the recursive walk in progress
    copyResult, \* value returned by copy_all_data_from
    matched,    \* value returned by verify_directory_contents_match
    pending,    \* e of `if let Err(e) = result`
    result,     \* value returned by validate()/transfer() to the caller
    fault,      \* operation the environment made fail with an I/O error
    altered,    \* a destination file was altered from outside the run
    calls,      \* how many times each step of the run was entered
    mismatch,   \* the digest mismatch the copy detected, if any
    arg,        \* inputs of the function a unit call applies
    out,        \* what that function returned
    enumerated, \* source entries in the order fs::read_dir yielded them
    fsys,       \* what each path of the file system names
    config      \* paths of config.source_directory_path, dest_directory_path

vars == <<src, dst, src0, dst0, weekday, now, caller, pc, stack, copyResult,
          matched, pending, result, fault, altered, calls, mismatch, arg, out,
                   enumerated, fsys, config>>

Steps == {"validate", "is_empty", "copy", "compare", "rollback", "clear_source"}

Entered(step) == [calls EXCEPT ![step] = @ + 1]

Errors == {"SchedulingMismatch", "DestinationNotEmpty", "HashMismatch",
           "IntegrityMismatch", "OsError"}

Init ==
    /\ src \in TreesUpTo(MaxEntries)
    /\ dst \in TreesUpTo(MaxDstEntries)
    /\ src0 = src
    /\ dst0 = dst
    /\ caller \in {"main", "test"}
    /\ weekday \in WeekDays
    /\ now \in NowDays
    \* the transfer tests build the config with "Mon" and a Monday
    /\ caller = "test" => (weekday = "Monday" /\ now = 1)
    /\ pc = "created"
    /\ stack = <<>>
    /\ copyResult = "none"
    /\ matched = "none"
    /\ pending = "none"
    /\ result = "none"
    /\ fault = "none"
    /\ altered = FALSE
    /\ calls = [s \in Steps |-> 0]
    /\ mismatch = <<>>
    /\ arg = "none"
    /\ out = "none"
    /\ enumerated = <<>>
    /\ fsys = TestDisk
    /\ config = TestConfig

\* ------------------------------------------------- service: validate
validate_reads_destination_always(weekday_matches) == TRUE
\* directory_data_transfer_service.rs:23-33  is_empty() is reached only when
\* the weekday check did not return
validate_reads_destination(weekday_matches) == weekday_matches

\* directory_data_transfer_service.rs:22-41
Validate ==
    /\ pc = "created"
    /\ caller = "main"
    /\ \E f \in {"none", "is_empty"} :
         LET m == matches_weekday(weekday, now)
             reads == validate_reads_destination(m)
         IN  /\ calls' = [calls EXCEPT !["validate"] = @ + 1,
                                       !["is_empty"] = @ + (IF reads THEN 1 ELSE 0)]
             /\ IF ~reads
                THEN /\ f = "none"
                     /\ pc' = "rejected"
                     /\ result' = "SchedulingMismatch"
                     /\ fault' = fault
                ELSE IF f # "none"
                THEN \* read_dir fails inside is_empty()?
                     /\ pc' = "rejected"
                     /\ result' = "OsError"
                     /\ fault' = f
                ELSE IF ~is_directory_empty(dst)
                THEN /\ pc' = "rejected"
                     /\ result' = "DestinationNotEmpty"
                     /\ fault' = fault
                ELSE IF ~m
                THEN \* the weekday error of line 24
                     /\ pc' = "rejected"
                     /\ result' = "SchedulingMismatch"
                     /\ fault' = fault
                ELSE /\ pc' = "validated"
                     /\ result' = result
                     /\ fault' = fault
    /\ UNCHANGED <<src, dst, src0, dst0, weekday, now, caller, stack,
                   copyResult, matched, pending, altered, mismatch, arg, out,
                   enumerated, fsys, config>>

\* ------------------------------------------------- service: transfer, copy
\* the frame of copy_directory_recursively(from, to): from and to are
\* relative to the source and the destination directory, todo is what
\* fs::read_dir(from) has not yet yielded
CopyFrame(from, to) == [from |-> from, to |-> to, todo |-> Children(src, from)]

join_rel_only(to, rel_path) == rel_path
\* file_system.rs:17-18  to.join(entry_path.strip_prefix(from))
join(to, rel_path) == to \o rel_path

\* an Err of copy_all_data_from leaves transfer() through the `?` of
\* directory_data_transfer_service.rs:47
propagate_one_level(frames) == IF frames = <<>> THEN <<>> ELSE Tail(frames)
\* file_system.rs:22  the `?` after the recursive call hands the Err to every
\* enclosing level: no frame of the walk survives
propagate_error(frames) == <<>>

CopyFails(res, f) ==
    /\ stack' = propagate_error(stack)
    /\ fault' = f
    /\ IF propagate_error(stack) = <<>>
       THEN /\ copyResult' = res
            /\ result' = res
            /\ pc' = "done"
       ELSE UNCHANGED <<copyResult, result, pc>>

transfer_requires_empty_destination(t) == is_directory_empty(t)
\* directory_data_transfer_service.rs:43-47  transfer() starts with the copy,
\* whatever the destination holds and whatever the day is
transfer_requires(t) == TRUE

\* transfer() is entered and copy_directory_recursively opens the source
\* (directory_data_transfer_service.rs:43-47, file_system.rs:9-14)
CopyBegin ==
    /\ \/ pc = "validated"
       \/ pc = "created" /\ caller = "test"
    /\ \E f \in {"none", "copy"} :
         IF ~transfer_requires(dst)
         THEN /\ f = "none"
              /\ result' = "DestinationNotEmpty"
              /\ pc' = "done"
              /\ UNCHANGED <<stack, copyResult, fault>>
         ELSE IF f # "none"
         THEN CopyFails("OsError", f)
         ELSE /\ stack' = <<CopyFrame(<<>>, <<>>)>>
              /\ pc' = "copy"
              /\ UNCHANGED <<copyResult, result, fault>>
    /\ calls' = Entered("copy")
    /\ UNCHANGED <<src, dst, src0, dst0, weekday, now, caller, matched,
                   pending, altered, mismatch, arg, out,
                   enumerated, fsys, config>>

frame_after_first_entry(top, n) == [top EXCEPT !.todo = {}]
\* file_system.rs:14  the iterator of fs::read_dir has yielded n and goes on
\* with the entries it has not yielded
frame_after_entry(top, n) == [top EXCEPT !.todo = @ \ {n}]

after_failed_verification_removed(t, p) == [t EXCEPT ![p] = "none"]
\* file_system.rs:26-33  the `?` of the two hash computations and the
\* `return Err` of the comparison leave dest_path as fs::copy wrote it
after_failed_verification(t, p) == t

\* one iteration of the loop of copy_directory_recursively
\* (file_system.rs:14-35); c is what fs::copy leaves in the destination file
CopyEntry ==
    /\ pc = "copy"
    /\ stack # <<>>
    /\ Head(stack).todo # {}
    /\ \E n \in Head(stack).todo, f \in {"none", "pre", "post"}, c \in Contents :
         LET top == Head(stack)
             entry_path == Append(top.from, n)
             p == join(top.to, <<n>>)
             rest == frame_after_entry(top, n)
             copied == [dst EXCEPT ![p] = c]
         IN  /\ enumerated' = Append(enumerated, entry_path)
             /\ IF src[entry_path] = "dir"
                THEN IF f = "pre" \/ dst[p] \in Contents
                     THEN \* create_dir_all fails
                          /\ dst' = dst
                          /\ mismatch' = mismatch
                          /\ CopyFails("OsError", "copy")
                     ELSE /\ dst' = [dst EXCEPT ![p] = "dir"]
                          /\ mismatch' = mismatch
                          /\ IF f = "post"
                             THEN \* read_dir of the subdirectory fails
                                  CopyFails("OsError", "copy")
                             ELSE /\ stack' = <<CopyFrame(entry_path, p), rest>>
                                                 \o Tail(stack)
                                  /\ UNCHANGED <<pc, copyResult, result, fault>>
                ELSE IF f = "pre" \/ dst[p] = "dir"
                     THEN \* fs::copy fails
                          /\ dst' = dst
                          /\ mismatch' = mismatch
                          /\ CopyFails("OsError", "copy")
                     ELSE IF f = "post"
                     THEN \* File::open or read fails while hashing
                          /\ dst' = after_failed_verification(copied, p)
                          /\ mismatch' = mismatch
                          /\ CopyFails("OsError", "hash")
                     ELSE IF HashesDiffer(calculate_hash_from_file_content(src[entry_path]),
                                          calculate_hash_from_file_content(c))
                     THEN /\ dst' = after_failed_verification(copied, p)
                          /\ mismatch' = <<[path |-> p, dst |-> dst']>>
                          /\ CopyFails("HashMismatch", fault)
                     ELSE /\ dst' = copied
                          /\ mismatch' = mismatch
                          /\ stack' = <<rest>> \o Tail(stack)
                          /\ UNCHANGED <<pc, copyResult, result, fault>>
    /\ UNCHANGED <<src, src0, dst0, weekday, now, caller, matched, pending,
                   altered, calls, arg, out, fsys, config>>

\* the loop of one directory is exhausted: Ok(()) (file_system.rs:36)
CopyReturn ==
    /\ pc = "copy"
    /\ stack # <<>>
    /\ Head(stack).todo = {}
    /\ stack' = Tail(stack)
    /\ IF Tail(stack) = <<>>
       THEN /\ copyResult' = "Ok"
            /\ pc' = "compare"
       ELSE UNCHANGED <<copyResult, pc>>
    /\ UNCHANGED <<src, dst, src0, dst0, weekday, now, caller, matched,
                   pending, result, fault, altered, calls, mismatch, arg, out,
                   enumerated, fsys, config>>

\* ------------------------------------------ service: target of remove_all
remove_all_target_src(pos) == "src"
\* directory_data_transfer_service.rs:63 (destination) and :67 (source)
remove_all_target(pos) == IF pos = "rollback" THEN "dst" ELSE "src"

rollback_result_swallow(e, removeErr) == e
\* directory_data_transfer_service.rs:62-65  remove_all()?; return Err(e)
rollback_result(e, removeErr) == IF removeErr # "none" THEN removeErr ELSE e

TargetOf(pos) == IF remove_all_target(pos) = "dst" THEN dst ELSE src

TargetTree == TargetOf(pc)

SetTarget(t) ==
    IF remove_all_target(pc) = "dst"
    THEN dst' = t /\ src' = src
    ELSE src' = t /\ dst' = dst

remove_entry_files_only(t, path) ==
    IF t[path] = "dir" THEN t ELSE [t EXCEPT ![path] = "none"]
\* fs::remove_dir of an emptied subdirectory (file_system.rs:94) and
\* fs::remove_file (file_system.rs:96)
remove_entry(t, path) == [t EXCEPT ![path] = "none"]

\* ---------------------------------------------- service: transfer, compare
BoolStr(b) == IF b THEN "true" ELSE "false"

\* the frame of clear_directory_contents(dir) on tree t
ClearFrame(t, dir) == [dir |-> dir, todo |-> Children(t, dir)]

comparison_outcome_ok(m) == "Ok"
\* directory_data_transfer_service.rs:53-59  true => Ok(()), false => Err
comparison_outcome(m) == IF m THEN "Ok" ELSE "IntegrityMismatch"

\* directory_data_transfer_service.rs:49-60; the `?` of line 52 returns an
\* I/O error of list_relative_paths to the caller of transfer()
Compare ==
    /\ pc = "compare"
    /\ \E f \in {"none", "compare"} :
         IF f # "none"
         THEN /\ pc' = "done"
              /\ result' = "OsError"
              /\ fault' = f
              /\ calls' = Entered("compare")
              /\ UNCHANGED <<matched, pending, stack>>
         ELSE LET m == verify_directory_contents_match(dst, src)
              IN  /\ matched' = BoolStr(m)
                  /\ UNCHANGED <<result, fault>>
                  /\ IF comparison_outcome(m) = "Ok"
                     THEN /\ pc' = "clear_source"
                          /\ calls' = [calls EXCEPT !["compare"] = @ + 1,
                                                    !["clear_source"] = @ + 1]
                          /\ pending' = pending
                          /\ stack' = <<ClearFrame(TargetOf("clear_source"), <<>>)>>
                     ELSE /\ pc' = "rollback"
                          /\ calls' = [calls EXCEPT !["compare"] = @ + 1,
                                                    !["rollback"] = @ + 1]
                          /\ pending' = comparison_outcome(m)
                          /\ stack' = <<ClearFrame(TargetOf("rollback"), <<>>)>>
    /\ UNCHANGED <<src, dst, src0, dst0, weekday, now, caller, copyResult,
                   altered, mismatch, arg, out,
                   enumerated, fsys, config>>

\* ------------------------------------- service: transfer, remove_all
directory_after_clear_removed(node) == AbsentNode
\* file_system.rs:86-100  clear_directory_contents removes the entries of
\* dir and never dir itself
directory_after_clear(node) == node

\* the path remove_all is applied to
RemovedPath(pos) ==
    IF remove_all_target(pos) = "dst" THEN config.dest_directory_path
    ELSE config.source_directory_path

\* an Err of remove_all leaves transfer() through the `?` of line 63 or 67
on_remove_error_retry(pos) == pos
on_remove_error_rolls_back(pos) ==
    IF pos = "clear_source" THEN "rollback" ELSE "done"
\* the `?` of directory_data_transfer_service.rs:63 and :67 ends transfer()
on_remove_error(pos) == "done"

RemoveFails ==
    /\ fault' = pc
    /\ IF on_remove_error(pc) = "done"
       THEN /\ result' = IF pc = "rollback"
                         THEN rollback_result(pending, "OsError")
                         ELSE "OsError"
            /\ pc' = "done"
            /\ stack' = <<>>
            /\ calls' = calls
       ELSE /\ result' = result
            /\ pc' = on_remove_error(pc)
            /\ stack' = <<ClearFrame(TargetOf(on_remove_error(pc)), <<>>)>>
            /\ calls' = Entered(on_remove_error(pc))

\* one iteration of the loop of clear_directory_contents
\* (file_system.rs:87-98) up to the recursive call
RemoveEntry ==
    /\ pc \in {"rollback", "clear_source"}
    /\ stack # <<>>
    /\ Head(stack).todo # {}
    /\ \E n \in Head(stack).todo, f \in {"none", "fail"} :
         LET top == Head(stack)
             p == Append(top.dir, n)
             rest == [top EXCEPT !.todo = @ \ {n}]
         IN  IF f = "fail"
             THEN /\ SetTarget(TargetTree)
                  /\ RemoveFails
             ELSE IF TargetTree[p] = "dir"
             THEN /\ SetTarget(TargetTree)
                  /\ stack' = <<ClearFrame(TargetTree, p), rest>>
                                 \o Tail(stack)
                  /\ UNCHANGED <<pc, result, fault, calls>>
             ELSE \* fs::remove_file
                  /\ SetTarget(remove_entry(TargetTree, p))
                  /\ stack' = <<rest>> \o Tail(stack)
                  /\ UNCHANGED <<pc, result, fault, calls>>
    /\ UNCHANGED <<src0, dst0, weekday, now, caller, copyResult, matched,
                   pending, altered, mismatch, arg, out,
                   enumerated, fsys, config>>

\* clear_directory_contents of one directory returns: fs::remove_dir of a
\* subdirectory (file_system.rs:94), or the end of remove_all and of
\* transfer() (directory_data_transfer_service.rs:64, 67-69)
RemoveReturn ==
    /\ pc \in {"rollback", "clear_source"}
    /\ stack # <<>>
    /\ Head(stack).todo = {}
    /\ \E f \in {"none", "fail"} :
         LET top == Head(stack)
         IN  IF f = "fail"
             THEN \* remove_dir fails, or read_dir of the directory failed
                  /\ SetTarget(TargetTree)
                  /\ RemoveFails
                  /\ fsys' = fsys
             ELSE IF Tail(stack) # <<>>
             THEN /\ SetTarget(remove_entry(TargetTree, top.dir))
                  /\ stack' = Tail(stack)
                  /\ fsys' = fsys
                  /\ UNCHANGED <<pc, result, fault, calls>>
             ELSE /\ SetTarget(TargetTree)
                  /\ stack' = <<>>
                  /\ pc' = "done"
                  /\ result' = IF pc = "rollback"
                               THEN rollback_result(pending, "none")
                               ELSE "Ok"
                  /\ fsys' = [fsys EXCEPT
                                ![RemovedPath(pc)] = directory_after_clear(@)]
                  /\ UNCHANGED <<fault, calls>>
    /\ UNCHANGED <<src0, dst0, weekday, now, caller, copyResult, matched,
                   pending, altered, mismatch, arg, out,
                   enumerated, config>>

\* ------------------------------------------------------------ environment
\* another process rewrites a destination file between the copy and the
\* comparison; entry names stay as they are
ExternalAlter ==
    /\ pc = "compare"
    /\ ~altered
    /\ \E p \in Paths, c \in Contents :
         /\ dst[p] \in Contents
         /\ c # dst[p]
         /\ dst' = [dst EXCEPT ![p] = c]
    /\ altered' = TRUE
    /\ UNCHANGED <<src, src0, dst0, weekday, now, caller, pc, stack,
                   copyResult, matched, pending, result, fault, calls,
                   mismatch, arg, out,
                   enumerated, fsys, config>>

\* ---------------------------------------------------------- specifications
Next ==
    \/ Validate
    \/ CopyBegin
    \/ CopyEntry
    \/ CopyReturn
    \/ Compare
    \/ RemoveEntry
    \/ RemoveReturn

Spec == Init /\ [][Next]_vars

NextExt == Next \/ ExternalAlter

SpecExt == Init /\ [][NextExt]_vars

\* ------------------------------------------------------- strings and dates
\* a string is the sequence of its characters
Digits == <<"0", "1", "2", "3", "4", "5", "6", "7", "8", "9">>

\* u32::to_string / i32::to_string of a non-negative number
RECURSIVE to_string(_)
to_string(n) ==
    IF n < 10 THEN <<Digits[n + 1]>>
    ELSE to_string(n \div 10) \o <<Digits[(n % 10) + 1]>>

\* String::repeat
RECURSIVE repeat(_, _)
repeat(ch, k) == IF k = 0 THEN <<>> ELSE <<ch>> \o repeat(ch, k - 1)

pad_left_unpadded(n, width, pad_char) == to_string(n)
\* path_template_renderer.rs:9-19
pad_left(n, width, pad_char) ==
    LET num_str == to_string(n)
    IN  IF Len(num_str) >= width THEN num_str
        ELSE repeat(pad_char, width - Len(num_str)) \o num_str

StartsWith(str, pat) == Len(str) >= Len(pat) /\ SubSeq(str, 1, Len(pat)) = pat

\* str::replace: every non-overlapping match, left to right
RECURSIVE replace(_, _, _)
replace(str, pat, to) ==
    IF str = <<>> THEN <<>>
    ELSE IF StartsWith(str, pat)
    THEN to \o replace(SubSeq(str, Len(pat) + 1, Len(str)), pat, to)
    ELSE <<Head(str)>> \o replace(Tail(str), pat, to)

\* str::contains of one character
contains(str, ch) == \E i \in 1..Len(str) : str[i] = ch

TokenYear == <<"{", "y", "y", "y", "y", "}">>
TokenMonth == <<"{", "m", "m", "}">>
TokenDay == <<"{", "d", "d", "}">>

\* path_template_renderer.rs:32-37
rendered_template(template, date) ==
    replace(replace(replace(template, TokenYear, to_string(date.year)),
                    TokenMonth, pad_left(date.month, 2, "0")),
            TokenDay, pad_left(date.day, 2, "0"))

\* days since 1970-01-01 of a date of the proleptic Gregorian calendar
days_from_civil(date) ==
    LET y == IF date.month <= 2 THEN date.year - 1 ELSE date.year
        era == y \div 400
        yoe == y - era * 400
        mp == (date.month + 9) % 12
        doy == (153 * mp + 2) \div 5 + date.day - 1
        doe == yoe * 365 + yoe \div 4 - yoe \div 100 + doy
    IN  era * 146097 + doe - 719468

\* chrono: date.weekday().num_days_from_sunday()  (weekday.rs:18);
\* 1970-01-01 was a Thursday
num_days_from_sunday(date) == (days_from_civil(date) + 4) % 7

Date(y, m, d) == [year |-> y, month |-> m, day |-> d]

\* ---------------------------------------------------------- weekday tokens
weekday_try_from_swapped(value) ==
    CASE value = "Mon" -> [status |-> "Ok", day |-> "Monday"]
      [] value = "Tue" -> [status |-> "Ok", day |-> "Tuesday"]
      [] value = "Wed" -> [status |-> "Ok", day |-> "Wednesday"]
      [] value = "Thu" -> [status |-> "Ok", day |-> "Thursday"]
      [] value = "Fri" -> [status |-> "Ok", day |-> "Friday"]
      [] value = "Sat" -> [status |-> "Ok", day |-> "Sunday"]
      [] value = "Sun" -> [status |-> "Ok", day |-> "Saturday"]
      [] OTHER -> [status |-> "InvalidInput", day |-> "none"]
\* weekday.rs:22-40
weekday_try_from(value) ==
    CASE value = "Mon" -> [status |-> "Ok", day |-> "Monday"]
      [] value = "Tue" -> [status |-> "Ok", day |-> "Tuesday"]
      [] value = "Wed" -> [status |-> "Ok", day |-> "Wednesday"]
      [] value = "Thu" -> [status |-> "Ok", day |-> "Thursday"]
      [] value = "Fri" -> [status |-> "Ok", day |-> "Friday"]
      [] value = "Sat" -> [status |-> "Ok", day |-> "Saturday"]
      [] value = "Sun" -> [status |-> "Ok", day |-> "Sunday"]
      [] OTHER -> [status |-> "InvalidInput", day |-> "none"]

\* -------------------------------------------------- paths on the file system
Nodes ==
    {AbsentNode}
      \cup [kind : {"file"}, readonly : BOOLEAN, tree : {EmptyTree}]
      \cup [kind : {"dir"}, readonly : BOOLEAN, tree : TreesUpTo(MaxDstEntries)]

NodeAt(disk, path) == IF path \in DOMAIN disk THEN disk[path] ELSE AbsentNode

\* Path::is_dir
is_dir(node) == node.kind = "dir"

\* file_system.rs:55-58  metadata.permissions().readonly()
is_path_readonly(node) == node.readonly

path_exists_never(disk, path) == FALSE
\* Path::exists  (virtual_directory_path.rs:13)
path_exists(disk, path) == NodeAt(disk, path).kind # "absent"

readonly_directory_path_new_any_directory(node) ==
    IF ~is_dir(node) THEN "NotFound" ELSE "Ok"
\* readonly_directory_path.rs:9-30
readonly_directory_path_new(node) ==
    IF ~is_dir(node) THEN "NotFound"
    ELSE IF ~is_path_readonly(node) THEN "PermissionDenied"
    ELSE "Ok"

writable_directory_path_new_any_directory(node) ==
    IF ~is_dir(node) THEN "NotFound" ELSE "Ok"
\* writable_directory_path.rs:11-32
writable_directory_path_new(node) ==
    IF ~is_dir(node) THEN "NotFound"
    ELSE IF is_path_readonly(node) THEN "PermissionDenied"
    ELSE "Ok"

Failed(status, disk) == [status |-> status, path |-> <<>>, disk |-> disk]

\* virtual_directory_path.rs:10-21
virtual_directory_path_new_unchecked(path, disk) ==
    [status |-> "Ok", path |-> path, disk |-> disk]
virtual_directory_path_new(path, disk) ==
    IF path_exists(disk, path) THEN Failed("AlreadyExists", disk)
    ELSE [status |-> "Ok", path |-> path, disk |-> disk]

\* path_template_renderer.rs:31-50
render(template, date, disk) ==
    LET rendered == rendered_template(template, date)
    IN  IF contains(rendered, "{") \/ contains(rendered, "}")
        THEN Failed("InvalidInput", disk)
        ELSE virtual_directory_path_new(rendered, disk)

OsOutcomes == {"created", "readonly", "fail"}

\* fs::create_dir_all: env is what the operating system does with the
\* request: "created" (directory with write permission), "readonly"
\* (the process umask leaves no write bit), "fail" (I/O error)
create_dir_all(path, disk, env) ==
    IF NodeAt(disk, path).kind = "dir" THEN [ok |-> TRUE, disk |-> disk]
    ELSE IF env = "fail" \/ NodeAt(disk, path).kind = "file"
    THEN [ok |-> FALSE, disk |-> disk]
    ELSE [ok |-> TRUE,
          disk |-> (path :> NewDirectory(env = "readonly")) @@ disk]

\* virtual_directory_path.rs:23-26
create_writable_directory_path(path, disk, env) ==
    LET made == create_dir_all(path, disk, env)
    IN  IF ~made.ok THEN Failed("OsError", disk)
        ELSE LET status == writable_directory_path_new(NodeAt(made.disk, path))
             IN  IF status = "Ok"
                 THEN [status |-> "Ok", path |-> path, disk |-> made.disk]
                 ELSE Failed(status, made.disk)

\* destination_directory_path/mod.rs:13-21
destination_directory_path_new(path, date, disk, env) ==
    LET template == virtual_directory_path_new(path, disk)
    IN  IF template.status # "Ok" THEN template
        ELSE LET rendered == render(template.path, date, disk)
             IN  IF rendered.status # "Ok" THEN rendered
                 ELSE create_writable_directory_path(rendered.path, disk, env)

\* ------------------------------------------------ configuration and main
build_steps_weekday_first ==
    <<"source_directory_path", "weekday", "dest_directory_path">>
\* the fields of Config are built in the order written
\* (arg_config_builder.rs:31-35, json_config_builder.rs:36-42)
build_steps == <<"source_directory_path", "dest_directory_path", "weekday">>

\* one field of Config; the `?` after it ends build() on an error
build_step(step, args, built, env) ==
    CASE step = "source_directory_path" ->
           LET status == readonly_directory_path_new(NodeAt(built.disk, args.source))
           IN  [built EXCEPT !.status = status,
                             !.source_directory_path = args.source]
      [] step = "dest_directory_path" ->
           LET made == destination_directory_path_new(
                           args.destination, args.date, built.disk, env)
           IN  [built EXCEPT !.status = made.status,
                             !.disk = made.disk,
                             !.dest_directory_path = made.path]
      [] step = "weekday" ->
           LET day == weekday_try_from(args.weekday)
           IN  [built EXCEPT !.status = day.status, !.weekday = day.day]

RECURSIVE build_from(_, _, _, _)
build_from(steps, args, built, env) ==
    IF steps = <<>> THEN built
    ELSE LET next == build_step(Head(steps), args, built, env)
         IN  IF next.status # "Ok"
             THEN [next EXCEPT !.failed = Head(steps)]
             ELSE build_from(Tail(steps), args, next, env)

\* ConfigBuilder::build
build(args, disk, env) ==
    build_from(build_steps, args,
               [status |-> "Ok", failed |-> "none", disk |-> disk,
                source_directory_path |-> <<>>, dest_directory_path |-> <<>>,
                weekday |-> "none"],
               env)

SourcePath == <<"/", "s", "o", "u", "r", "c", "e">>

\* a template with the three tokens, one without a token, one with a token
\* the renderer does not know
MainTemplates ==
    {<<"/", "{", "y", "y", "y", "y", "}", "{", "m", "m", "}", "{", "d", "d", "}">>,
     <<"/", "h", "o", "g", "e">>,
     <<"/", "{", "i", "n", "v", "a", "l", "i", "d", "}">>}

\* 2024-01-01 was a Monday, 2025-06-19 a Thursday
MainDates == {Date(2024, 1, 1), Date(2025, 6, 19)}

MainTokens == {"Mon", "Invalid"}

\* the command line of main (main.rs:35-40) and the day it is run on
MainArgs ==
    [fn : {"main"}, source : {SourcePath}, destination : MainTemplates,
     weekday : MainTokens, date : MainDates]

\* what the source path and the rendered destination path name before the
\* first run
SourceNodes == {AbsentNode, NewDirectory(FALSE), NewDirectory(TRUE)}

DestinationNodes ==
    {AbsentNode, NewDirectory(FALSE),
     [kind |-> "file", readonly |-> FALSE, tree |-> EmptyTree]}

\* a directory that holds one file
OneFileTree == [EmptyTree EXCEPT ![<<"a">>] = "x"]

InitMain ==
    /\ arg \in MainArgs
    /\ \E at_source \in SourceNodes, at_destination \in DestinationNodes :
         fsys = (arg.source :> at_source)
                  @@ (rendered_template(arg.destination, arg.date) :> at_destination)
    /\ src \in IF ~is_dir(fsys[arg.source]) THEN {EmptyTree}
               ELSE IF is_path_readonly(fsys[arg.source])
               THEN TreesUpTo(MaxEntries)
               ELSE {EmptyTree, OneFileTree}
    /\ dst \in IF is_dir(fsys[rendered_template(arg.destination, arg.date)])
               THEN {EmptyTree, OneFileTree} ELSE {EmptyTree}
    /\ src0 = src
    /\ dst0 = dst
    /\ caller = "main"
    /\ weekday = "none"
    /\ now = num_days_from_sunday(arg.date)
    /\ pc = "start"
    /\ stack = <<>>
    /\ copyResult = "none"
    /\ matched = "none"
    /\ pending = "none"
    /\ result = "none"
    /\ fault = "none"
    /\ altered = FALSE
    /\ calls = [s \in Steps |-> 0]
    /\ mismatch = <<>>
    /\ enumerated = <<>>
    /\ config = [source_directory_path |-> <<>>, dest_directory_path |-> <<>>]
    /\ out = [run |-> 0]

\* the state a run of main starts from: nothing copied, compared or removed
Fresh ==
    /\ stack' = <<>>
    /\ copyResult' = "none"
    /\ matched' = "none"
    /\ pending' = "none"
    /\ fault' = "none"
    /\ calls' = [s \in Steps |-> 0]
    /\ mismatch' = <<>>
    /\ enumerated' = <<>>
    /\ src0' = src
    /\ dst0' = dst

\* main up to DirectoryDataTransferService::new (main.rs:29-48): the
\* configuration is built; an Err of build() ends the process
Configure(run, first) ==
    \E env \in OsOutcomes :
        LET built == build(arg, fsys, env)
        IN  /\ fsys' = built.disk
            /\ out' = [run |-> run, build |-> built, first |-> first]
            /\ IF built.status = "Ok"
               THEN /\ pc' = "created"
                    /\ result' = "none"
                    /\ weekday' = built.weekday
                    /\ config' = [source_directory_path |-> built.source_directory_path,
                                  dest_directory_path |-> built.dest_directory_path]
               ELSE /\ pc' = "config_error"
                    /\ result' = built.status
                    /\ UNCHANGED <<weekday, config>>

Build ==
    /\ pc = "start"
    /\ Configure(1, [status |-> "none"])
    /\ Fresh
    /\ UNCHANGED <<src, dst, now, caller, altered, arg>>

\* the program is started again with the same arguments on the same date
SecondRun ==
    /\ pc \in {"config_error", "rejected", "done"}
    /\ out.run = 1
    /\ Configure(2, [status |-> out.build.status, pc |-> pc, result |-> result,
                     src |-> src, dst |-> dst, disk |-> fsys])
    /\ Fresh
    /\ UNCHANGED <<src, dst, now, caller, altered, arg>>

NextMain ==
    \/ Build
    \/ SecondRun
    \/ Next

SpecMain == InitMain /\ [][NextMain]_vars

\* ------------------------------------ clear_directory_contents on its own
\* the loop of clear_directory_contents(dir) over the entries todo of dir
\* (file_system.rs:87-98); run.budget is the number of removals the
\* operating system carries out before one fails
RECURSIVE clear_entries(_, _, _)
clear_entries(run, dir, todo) ==
    IF todo = {} \/ run.status # "Ok" THEN run
    ELSE LET n == CHOOSE x \in todo : TRUE
             path == Append(dir, n)
             inner == IF run.tree[path] = "dir"
                      THEN clear_entries(run, path, Children(run.tree, path))
                      ELSE run
             removed == IF inner.status # "Ok" THEN inner
                        ELSE IF inner.budget = 0
                        THEN [inner EXCEPT !.status = "OsError"]
                        ELSE [tree |-> remove_entry(inner.tree, path),
                              status |-> "Ok",
                              budget |-> inner.budget - 1]
         IN  clear_entries(removed, dir, todo \ {n})

\* file_system.rs:86-100; fs::read_dir of something that is not a
\* directory is an error
clear_directory_contents(node, budget) ==
    IF ~is_dir(node) THEN [status |-> "OsError", node |-> node]
    ELSE LET run == clear_entries([tree |-> node.tree, status |-> "Ok",
                                   budget |-> budget],
                                  <<>>, Children(node.tree, <<>>))
         IN  [status |-> run.status,
              node |-> directory_after_clear([node EXCEPT !.tree = run.tree])]

\* ------------------------------------------------------------ unit calls
\* The public functions applied on their own to inputs of their domain, the
\* way the unit tests of each file apply them.
VerifyInputs ==
    [fn : {"verify_directory_contents_match"},
     path_1 : TreesUpTo(MaxEntries), path_2 : TreesUpTo(MaxEntries)]

\* the templates of the renderer's tests, one without a token, one that
\* repeats a token, and two with a brace that no token consumes
Templates ==
    {<<"/", "t", "/", "{", "y", "y", "y", "y", "}", "/", "{", "m", "m", "}", "/", "{", "d", "d", "}">>,
     <<"/", "t", "/", "{", "y", "y", "y", "y", "}", "/", "{", "i", "n", "v", "a", "l", "i", "d", "}", "/", "{", "d", "d", "}">>,
     <<"/", "t", "/", "h", "o", "g", "e">>,
     <<"/", "{", "d", "d", "}", "{", "d", "d", "}", "-", "{", "m", "m", "}">>,
     <<"/", "t", "/", "{", "d", "d">>,
     <<"/", "{", "{", "m", "m", "}", "}">>}

Dates == {Date(2024, 3, 14), Date(2026, 11, 4), Date(2025, 12, 9)}

\* the week of 2024-01-01 (a Monday) and the date of the weekday tests
WeekDates == {Date(2024, 1, d) : d \in 1..7} \cup {Date(2025, 6, 19)}

Tokens ==
    {"Mon", "Tue", "Wed", "Thu", "Fri", "Sat", "Sun",
     "mon", "MON", "Monday", "Thur", "", "Invalid"}

\* a disk on which the template string and the rendered string may each
\* name something already
Disks(template, date) ==
    {(template :> at_template) @@ (rendered_template(template, date) :> at_rendered) :
        at_template \in {AbsentNode, NewDirectory(FALSE)}, at_rendered \in Nodes}

RenderInputs ==
    UNION {[fn : {"render"}, template : {t}, date : {d}, disk : Disks(t, d)] :
              t \in Templates, d \in Dates}

DestinationInputs ==
    UNION {[fn : {"destination_directory_path_new"}, template : {t}, date : {d},
            disk : Disks(t, d)] : t \in Templates, d \in Dates}

ReadonlyInputs == [fn : {"readonly_directory_path_new"}, node : Nodes]

WritableInputs == [fn : {"writable_directory_path_new"}, node : Nodes]

WeekDayInputs == [fn : {"weekday"}, token : Tokens, date : WeekDates]

\* the directory of the tests of clear_directory_contents: files and
\* subdirectories, empty, or not there
ClearInputs ==
    [fn : {"clear_directory_contents"},
     node : {AbsentNode}
              \cup [kind : {"file"}, readonly : {FALSE}, tree : {EmptyTree}]
              \cup [kind : {"dir"}, readonly : BOOLEAN,
                    tree : TreesUpTo(MaxEntries)]]

UnitInputs ==
    VerifyInputs \cup RenderInputs \cup DestinationInputs \cup ReadonlyInputs
        \cup WritableInputs \cup WeekDayInputs \cup ClearInputs

InitUnit ==
    /\ arg \in UnitInputs
    /\ out = "none"
    /\ pc = "unit"
    /\ src = EmptyTree
    /\ dst = EmptyTree
    /\ src0 = EmptyTree
    /\ dst0 = EmptyTree
    /\ caller = "test"
    /\ weekday = "Monday"
    /\ now = 1
    /\ stack = <<>>
    /\ copyResult = "none"
    /\ matched = "none"
    /\ pending = "none"
    /\ result = "none"
    /\ fault = "none"
    /\ altered = FALSE
    /\ calls = [s \in Steps |-> 0]
    /\ mismatch = <<>>
    /\ enumerated = <<>>
    /\ fsys = TestDisk
    /\ config = TestConfig

UnitFrame ==
    UNCHANGED <<src, dst, src0, dst0, weekday, now, caller, stack, copyResult,
                matched, pending, result, fault, altered, calls, mismatch, arg,
                enumerated, fsys, config>>

\* verify_directory_contents_match(path_1, path_2)  (file_system.rs:65-69)
CallVerify ==
    /\ pc = "unit"
    /\ arg.fn = "verify_directory_contents_match"
    /\ out' = [forward |-> verify_directory_contents_match(arg.path_1, arg.path_2)]
    /\ pc' = "unit_again"
    /\ UnitFrame

\* the same call with the two directories exchanged
CallVerifySwapped ==
    /\ pc = "unit_again"
    /\ arg.fn = "verify_directory_contents_match"
    /\ out' = [forward |-> out.forward,
               backward |-> verify_directory_contents_match(arg.path_2, arg.path_1)]
    /\ pc' = "unit_done"
    /\ UnitFrame

\* PathTemplateRenderer::new(template).render(date)
CallRender ==
    /\ pc = "unit"
    /\ arg.fn = "render"
    /\ out' = render(arg.template, arg.date, arg.disk)
    /\ pc' = "unit_done"
    /\ UnitFrame

\* DestinationDirectoryPath::new(path) on the day arg.date
CallDestinationNew ==
    /\ pc = "unit"
    /\ arg.fn = "destination_directory_path_new"
    /\ \E env \in OsOutcomes :
          out' = destination_directory_path_new(arg.template, arg.date, arg.disk, env)
    /\ pc' = "unit_done"
    /\ UnitFrame

\* ReadonlyDirectoryPath::new(path)
CallReadonlyNew ==
    /\ pc = "unit"
    /\ arg.fn = "readonly_directory_path_new"
    /\ out' = [status |-> readonly_directory_path_new(arg.node)]
    /\ pc' = "unit_done"
    /\ UnitFrame

\* WritableDirectoryPath::new(path)
CallWritableNew ==
    /\ pc = "unit"
    /\ arg.fn = "writable_directory_path_new"
    /\ out' = [status |-> writable_directory_path_new(arg.node)]
    /\ pc' = "unit_done"
    /\ UnitFrame

\* WeekDay::try_from(token), then matches_weekday(date) on the value built
CallWeekDay ==
    /\ pc = "unit"
    /\ arg.fn = "weekday"
    /\ LET built == weekday_try_from(arg.token)
       IN  out' = [status |-> built.status,
                   day |-> built.day,
                   matches |-> IF built.status = "Ok"
                               THEN BoolStr(matches_weekday(built.day,
                                                num_days_from_sunday(arg.date)))
                               ELSE "none"]
    /\ pc' = "unit_done"
    /\ UnitFrame

\* FileSystem::clear_directory_contents(dir)
CallClear ==
    /\ pc = "unit"
    /\ arg.fn = "clear_directory_contents"
    /\ \E budget \in 0..MaxEntries :
          out' = clear_directory_contents(arg.node, budget)
    /\ pc' = "unit_done"
    /\ UnitFrame

NextUnit ==
    \/ CallVerify
    \/ CallVerifySwapped
    \/ CallRender
    \/ CallDestinationNew
    \/ CallReadonlyNew
    \/ CallWritableNew
    \/ CallWeekDay
    \/ CallClear

SpecUnit == InitUnit /\ [][NextUnit]_vars

TypeOK ==
    /\ src \in [Paths -> Kinds \cup {"none"}]
    /\ dst \in [Paths -> Kinds \cup {"none"}]
    /\ \A p \in Paths : dst[p] # "none" => ParentIsDir(dst, p)
    /\ \A p \in Paths : src[p] # "none" => ParentIsDir(src, p)
    /\ pc \in {"created", "validated", "rejected", "copy", "compare",
               "rollback", "clear_source", "done", "unit", "unit_again",
               "unit_done", "start", "config_error"}
    /\ result \in Errors \cup {"none", "Ok", "NotFound", "PermissionDenied",
                            "AlreadyExists", "InvalidInput"}
    /\ (pc \in {"rejected", "done", "config_error"}) = (result # "none")

\* ------------------------------------------------------------- properties
DirEmpty(t) == \A p \in Paths : t[p] = "none"

Done == pc = "done"

\* C1: when the copy step finds a digest mismatch, transfer() returns an
\* integrity error with the destination empty and the source unmodified
\* (stated for runs that start on an empty destination).
C1_HashMismatchLeavesDestinationEmpty ==
    (Done /\ DirEmpty(dst0) /\ copyResult = "HashMismatch")
        => /\ DirEmpty(dst)
           /\ src = src0
           /\ result \in {"HashMismatch", "IntegrityMismatch"}

\* C2: every failure of transfer() after copying has begun (I/O error in the
\* copy step or in the listing of the comparison) clears the destination
\* before the error is returned and leaves the source untouched (stated for
\* runs that start on an empty destination).
C2_FailureAfterCopyBeganClearsDestination ==
    (Done /\ DirEmpty(dst0)
       /\ (copyResult \in {"OsError", "HashMismatch"} \/ fault = "compare"))
        => /\ DirEmpty(dst)
           /\ src = src0
           /\ result \in Errors

\* C3: copy Ok and comparison false: transfer() returns an error, the source
\* is as it was before transfer(), and the rollback that transfer() then runs
\* to its end leaves the destination without entries (a rollback that itself
\* fails is the case of C10).
C3_ComparisonFalseRollsBack ==
    (Done /\ copyResult = "Ok" /\ matched = "false")
        => /\ result \in Errors
           /\ src = src0
           /\ fault # "rollback" => (result = "IntegrityMismatch" /\ DirEmpty(dst))

C3_Witness ==
    /\ Done
    /\ copyResult = "Ok"
    /\ matched = "false"
    /\ result = "IntegrityMismatch"
    /\ ~DirEmpty(dst0)
    /\ ~DirEmpty(src0)
    /\ DirEmpty(dst)

C5_SourceTouchedOnlyAfterVerification ==
    src # src0 => (copyResult = "Ok" /\ matched = "true")

C5_Witness ==
    /\ pc = "clear_source"
    /\ src # src0
    /\ ~DirEmpty(src)

\* C6 (as claimed): a destination file altered between copy and comparison
\* makes transfer() return an integrity error, empty the destination and
\* leave the source untouched.
C6_AlterationIsDetected ==
    (Done /\ altered /\ DirEmpty(dst0))
        => /\ result \in {"HashMismatch", "IntegrityMismatch"}
           /\ DirEmpty(dst)
           /\ src = src0

\* C6 (amended): the alteration of a file's content is not detected: the
\* comparison returns true, no rollback runs, no integrity error is returned,
\* the destination keeps every entry, and transfer() returning Ok has emptied
\* the source while the destination differs from the original source tree.
C6_AlterationIsNotDetected ==
    (altered /\ DirEmpty(dst0) /\ pc \in {"clear_source", "done"} /\ fault # "compare")
        => /\ matched = "true"
           /\ result \notin {"HashMismatch", "IntegrityMismatch"}
           /\ \A p \in Paths : (src0[p] = "none") = (dst[p] = "none")
           /\ result = "Ok" => (DirEmpty(src) /\ dst # src0)

C6_Witness ==
    /\ Done
    /\ altered
    /\ DirEmpty(dst0)
    /\ result = "Ok"
    /\ \E n \in Names : src0[<<n>>] \in Contents /\ dst[<<n>>] \in Contents
                         /\ dst[<<n>>] # src0[<<n>>]
    /\ DirEmpty(src)

\* C7: when the weekday of now differs from the configured weekday, validate()
\* returns an error and neither tree is changed.
C7_WrongWeekdayRejectsWithoutMutation ==
    (caller = "main" /\ now # WeekDayValue[weekday] /\ pc # "created")
        => /\ pc = "rejected"
           /\ result = "SchedulingMismatch"
           /\ src = src0
           /\ dst = dst0

C7_Witness ==
    /\ pc = "rejected"
    /\ result = "SchedulingMismatch"
    /\ now # WeekDayValue[weekday]
    /\ ~DirEmpty(src)
    /\ DirEmpty(dst)

\* C8: destination not empty when validate() runs on the matching weekday:
\* validate() returns an error and, in main's run, transfer() is never
\* entered: no copy, no comparison, no rollback, no source deletion.
C8_NonEmptyDestinationStopsTheRun ==
    (caller = "main" /\ now = WeekDayValue[weekday] /\ ~DirEmpty(dst0)
       /\ pc # "created")
        => /\ pc = "rejected"
           /\ result \in Errors
           /\ copyResult = "none"
           /\ matched = "none"
           /\ stack = <<>>
           /\ src = src0
           /\ dst = dst0

C8_Witness ==
    /\ caller = "main"
    /\ pc = "rejected"
    /\ result = "DestinationNotEmpty"
    /\ ~DirEmpty(dst)
    /\ ~DirEmpty(src)

\* C9: when the verified copy returns Ok, every file of the source tree is in
\* the destination at the same relative path with the same content and every
\* directory of the source tree, empty or nested, is in the destination.
C9_VerifiedCopyMirrorsTheTree ==
    (pc = "compare" /\ copyResult = "Ok")
        => \A p \in Paths : src0[p] # "none" => dst[p] = src0[p]

C9_Witness ==
    /\ pc = "compare"
    /\ copyResult = "Ok"
    /\ ~DirEmpty(dst0)
    /\ \E p \in Paths : Len(p) = 2 /\ src0[p] \in Contents /\ dst[p] = src0[p]
    /\ \E n \in Names : src0[<<n>>] = "dir" /\ Children(src0, <<n>>) = {}
                         /\ dst[<<n>>] = "dir" /\ dst0[<<n>>] = "none"

\* C10: a rollback whose deletion fails makes transfer() return the
\* rollback's error, not the integrity error it was handling.
C10_RollbackErrorIsReturned ==
    fault = "rollback"
        => /\ Done
           /\ result = "OsError"
           /\ result # pending

C10_Witness ==
    /\ fault = "rollback"
    /\ Done
    /\ pending = "IntegrityMismatch"
    /\ result = "OsError"
    /\ ~DirEmpty(dst)

\* C11: verify_directory_contents_match(A, B) is true exactly when A and B
\* have the same set of top-level entry names; what lies below the top level
\* and what the files contain does not enter the result.
TopNames(t) == {n \in Names : t[<<n>>] # "none"}

Applied(fn) == pc \in {"unit_again", "unit_done"} /\ arg.fn = fn

C11_ComparatorIsTopLevelNameEquality ==
    Applied("verify_directory_contents_match")
        => (out.forward <=> TopNames(arg.path_1) = TopNames(arg.path_2))

C11_Witness ==
    /\ Applied("verify_directory_contents_match")
    /\ out.forward
    /\ \E n \in Names : /\ arg.path_1[<<n>>] \in Contents
                         /\ arg.path_2[<<n>>] \in Contents
                         /\ arg.path_1[<<n>>] # arg.path_2[<<n>>]
    /\ \E p \in Paths : /\ Len(p) = 2
                         /\ arg.path_1[p] # "none"
                         /\ arg.path_2[p] = "none"

\* C12: the comparator gives the same boolean for (A, B) and for (B, A).
C12_ComparatorIsSymmetric ==
    (pc = "unit_done" /\ arg.fn = "verify_directory_contents_match")
        => out.forward = out.backward

C12_Witness ==
    /\ pc = "unit_done"
    /\ arg.fn = "verify_directory_contents_match"
    /\ ~out.forward
    /\ ~out.backward
    /\ TopNames(arg.path_1) # {}
    /\ TopNames(arg.path_1) \subseteq TopNames(arg.path_2)

\* C13: a run is linear: its position only moves forward through
\* created, validated, copy, compare, rollback or source-clear, to a terminal
\* position; validate, copy, comparison, rollback and source-clear are each
\* entered at most once, so nothing is re-attempted after a failure; and in a
\* terminal position neither tree changes any more.
Rank ==
    [created |-> 0, validated |-> 1, copy |-> 2, compare |-> 3,
     rollback |-> 4, clear_source |-> 4, rejected |-> 5, done |-> 5]

Terminal == pc \in {"rejected", "done"}

C13_RunIsLinear ==
    /\ [](\A step \in Steps : calls[step] <= 1)
    /\ [][/\ Rank[pc'] >= Rank[pc]
          /\ Rank[pc'] = Rank[pc] => pc' = pc
          /\ Terminal => (pc' = pc /\ src' = src /\ dst' = dst /\ result' = result)]_vars

C13_Witness ==
    /\ pc = "done"
    /\ fault = "rollback"
    /\ calls["copy"] = 1
    /\ calls["compare"] = 1
    /\ calls["rollback"] = 1
    /\ calls["clear_source"] = 0
    /\ ~DirEmpty(dst)

\* the node a disk holds at a path, read without the program's own tests
Holds(disk, path) == IF path \in DOMAIN disk THEN disk[path].kind ELSE "absent"

HasBrace(str) == \E i \in 1..Len(str) : str[i] \in {"{", "}"}

\* C14: DestinationDirectoryPath::new succeeds only on a rendered path that
\* names nothing yet, and then that path is a directory that exists, is not
\* read-only and has no entry; when the template renders and the rendered
\* path already names something, the call fails with AlreadyExists and the
\* disk is as it was.
C14_DestinationIsCreatedFresh ==
    Applied("destination_directory_path_new") =>
        LET rendered == rendered_template(arg.template, arg.date)
        IN  /\ out.status = "Ok" =>
                  /\ out.path = rendered
                  /\ Holds(arg.disk, rendered) = "absent"
                  /\ out.disk[rendered] = [kind |-> "dir", readonly |-> FALSE,
                                           tree |-> EmptyTree]
            /\ (~HasBrace(rendered) /\ Holds(arg.disk, rendered) # "absent") =>
                  /\ out.status = "AlreadyExists"
                  /\ out.disk = arg.disk

C14_Witness ==
    /\ Applied("destination_directory_path_new")
    /\ out.status = "Ok"
    /\ out.path = <<"/", "t", "/", "2", "0", "2", "6", "/", "1", "1", "/", "0", "4">>
    /\ Holds(arg.disk, out.path) = "absent"
    /\ Holds(out.disk, out.path) = "dir"

\* the date components written with a fixed number of decimal digits
Digit(k) == Digits[(k % 10) + 1]

FourDigits(n) ==
    <<Digit(n \div 1000), Digit(n \div 100), Digit(n \div 10), Digit(n)>>

TwoDigits(n) == <<Digit(n \div 10), Digit(n)>>

\* one pass over the template, each token replaced where it stands
RECURSIVE Substituted(_, _)
Substituted(str, date) ==
    IF str = <<>> THEN <<>>
    ELSE IF StartsWith(str, TokenYear)
    THEN FourDigits(date.year) \o Substituted(SubSeq(str, 7, Len(str)), date)
    ELSE IF StartsWith(str, TokenMonth)
    THEN TwoDigits(date.month) \o Substituted(SubSeq(str, 5, Len(str)), date)
    ELSE IF StartsWith(str, TokenDay)
    THEN TwoDigits(date.day) \o Substituted(SubSeq(str, 5, Len(str)), date)
    ELSE <<Head(str)>> \o Substituted(Tail(str), date)

\* C15: render replaces every {yyyy} by the four-digit year and every {mm}
\* and {dd} by the two-digit, zero-padded month and day; when a brace is
\* left the result is InvalidInput and no path, otherwise the path returned
\* is the substituted template (or AlreadyExists when that path is taken).
C15_RenderSubstitutesDateTokens ==
    Applied("render") =>
        LET expected == Substituted(arg.template, arg.date)
        IN  IF HasBrace(expected)
            THEN out.status = "InvalidInput" /\ out.path = <<>>
            ELSE IF Holds(arg.disk, expected) = "absent"
            THEN out.status = "Ok" /\ out.path = expected
            ELSE out.status = "AlreadyExists" /\ out.path = <<>>

C15_Witness ==
    /\ Applied("render")
    /\ arg.template = <<"/", "{", "d", "d", "}", "{", "d", "d", "}", "-", "{", "m", "m", "}">>
    /\ arg.date = Date(2024, 3, 14)
    /\ out.status = "Ok"
    /\ out.path = <<"/", "1", "4", "1", "4", "-", "0", "3">>

\* C16: ReadonlyDirectoryPath::new is Ok exactly for an existing directory
\* marked read-only, NotFound for anything that is not an existing
\* directory, PermissionDenied for a directory that is not read-only.
C16_ReadonlyPathNeedsReadonlyDirectory ==
    Applied("readonly_directory_path_new") =>
        /\ out.status = "Ok" <=> (arg.node.kind = "dir" /\ arg.node.readonly)
        /\ arg.node.kind # "dir" => out.status = "NotFound"
        /\ (arg.node.kind = "dir" /\ ~arg.node.readonly) =>
              out.status = "PermissionDenied"

C16_Witness ==
    /\ Applied("readonly_directory_path_new")
    /\ arg.node.kind = "dir"
    /\ ~arg.node.readonly
    /\ ~DirEmpty(arg.node.tree)
    /\ out.status = "PermissionDenied"

\* C17: WritableDirectoryPath::new is Ok exactly for an existing directory
\* not marked read-only, NotFound for anything that is not an existing
\* directory, PermissionDenied for a read-only directory.
C17_WritablePathNeedsWritableDirectory ==
    Applied("writable_directory_path_new") =>
        /\ out.status = "Ok" <=> (arg.node.kind = "dir" /\ ~arg.node.readonly)
        /\ arg.node.kind # "dir" => out.status = "NotFound"
        /\ (arg.node.kind = "dir" /\ arg.node.readonly) =>
              out.status = "PermissionDenied"

C17_Witness ==
    /\ Applied("writable_directory_path_new")
    /\ arg.node.kind = "dir"
    /\ arg.node.readonly
    /\ out.status = "PermissionDenied"

\* the seven tokens and the day each stands for
AcceptedTokens ==
    [Mon |-> "Monday", Tue |-> "Tuesday", Wed |-> "Wednesday",
     Thu |-> "Thursday", Fri |-> "Friday", Sat |-> "Saturday", Sun |-> "Sunday"]

\* the calendar: 2024-01-01 was a Monday, 2025-06-19 a Thursday
CalendarDay(date) ==
    IF date = Date(2025, 6, 19) THEN "Thursday"
    ELSE <<"Monday", "Tuesday", "Wednesday", "Thursday", "Friday", "Saturday",
           "Sunday">>[date.day]

\* C18: WeekDay::try_from accepts exactly Mon, Tue, Wed, Thu, Fri, Sat, Sun,
\* each giving its day, and answers InvalidInput to any other string;
\* matches_weekday(date) is true exactly when the date falls on that day.
C18_WeekDayTokensAndMatching ==
    Applied("weekday") =>
        IF arg.token \in DOMAIN AcceptedTokens
        THEN /\ out.status = "Ok"
             /\ out.day = AcceptedTokens[arg.token]
             /\ out.matches = "true" <=> out.day = CalendarDay(arg.date)
        ELSE out.status = "InvalidInput"

C18_Witness ==
    /\ Applied("weekday")
    /\ arg.token = "Sun"
    /\ arg.date = Date(2024, 1, 7)
    /\ out.day = "Sunday"
    /\ out.matches = "true"

\* the step taken is a call of validate()
ValidateReturns == pc = "created" /\ pc' \in {"validated", "rejected"}

\* C19: validate() tests the weekday first: with a weekday that does not
\* match and a destination that holds something, the scheduling error is
\* returned and the destination is never listed; a successful validate()
\* leaves the weekday and 'now' of the service as they were, and no call of
\* validate() changes the source or the destination tree.
C19_WeekdayIsCheckedFirstAndNothingChanges ==
    /\ []((/\ caller = "main"
           /\ pc # "created"
           /\ now # WeekDayValue[weekday]
           /\ ~DirEmpty(dst0))
              => (/\ pc = "rejected"
                  /\ result = "SchedulingMismatch"
                  /\ calls["is_empty"] = 0
                  /\ calls["validate"] = 1))
    /\ [][ValidateReturns =>
              /\ src' = src
              /\ dst' = dst
              /\ pc' = "validated" => (weekday' = weekday /\ now' = now)]_vars

C19_Witness ==
    /\ pc = "rejected"
    /\ result = "SchedulingMismatch"
    /\ now # WeekDayValue[weekday]
    /\ ~DirEmpty(dst0)
    /\ dst = dst0
    /\ calls["validate"] = 1
    /\ calls["is_empty"] = 0

\* C20: once the copy has found a digest mismatch it has returned: the walk
\* holds no frame at any level, the copy's result is the mismatch, and the
\* destination never holds an entry beyond those it held when the mismatch
\* was found, so no sibling still to be enumerated is copied or created.
C20_MismatchStopsTheWalk ==
    mismatch # <<>> =>
        /\ stack = <<>>
        /\ pc # "copy"
        /\ copyResult = "HashMismatch"
        /\ \A p \in Paths : dst[p] # "none" => mismatch[1].dst[p] # "none"

\* the mismatch is found inside a subdirectory while an entry of the
\* source's top level has not been enumerated yet
C20_Witness ==
    /\ mismatch # <<>>
    /\ Len(mismatch[1].path) = 2
    /\ \E n \in Names : src[<<n>>] # "none" /\ dst[<<n>>] = "none"
    /\ DirEmpty(dst0)
    /\ pc = "done"

\* the source tree laid over what the destination held before
Overlay(under, over) ==
    [p \in Paths |-> IF over[p] # "none" THEN over[p] ELSE under[p]]

\* C21: when the verified copy returns Ok, the destination tree is the one
\* tree the source and the destination's earlier entries determine, whatever
\* the order in which read_dir yielded the entries of each directory.
C21_CopyResultIgnoresEnumerationOrder ==
    (pc = "compare" /\ copyResult = "Ok") => dst = Overlay(dst0, src0)

\* a successful copy whose top-level entries came in the reverse of the name
\* order, the directory "b" before the file "a"
C21_Witness ==
    /\ pc = "compare"
    /\ copyResult = "Ok"
    /\ Len(enumerated) = 3
    /\ enumerated[1] = <<"b">>
    /\ enumerated[3] = <<"a">>
    /\ src0[<<"b">>] = "dir"
    /\ src0[<<"a">>] \in Contents
    /\ dst = src0

Last(seq) == seq[Len(seq)]

\* C22: the verified copy never deletes: no step of the copy removes an
\* entry of the destination, and when the copy has failed on verifying a
\* file (digest mismatch, or an I/O error while hashing) the file it had
\* just copied is in the destination when the copy returns.
C22_FailedCopyKeepsWhatItCreated ==
    /\ [][pc = "copy" => \A p \in Paths : dst[p] # "none" => dst'[p] # "none"]_vars
    /\ [](mismatch # <<>> => dst[mismatch[1].path] \in Contents)
    /\ [](fault = "hash" => (/\ pc = "done"
                             /\ copyResult = "OsError"
                             /\ calls["copy"] = 1
                             /\ dst[Last(enumerated)] \in Contents))

\* hashing the file a/b fails after the directory a and the file a/a were
\* created: all three are in the destination when transfer() has returned
C22_Witness ==
    /\ pc = "done"
    /\ fault = "hash"
    /\ DirEmpty(dst0)
    /\ enumerated = << <<"a">>, <<"a", "a">>, <<"a", "b">> >>
    /\ dst[<<"a">>] = "dir"
    /\ dst[<<"a", "a">>] = src0[<<"a", "a">>]
    /\ dst[<<"a", "b">>] \in Contents

Entries(t) == {p \in Paths : t[p] # "none"}

\* C23: clear_directory_contents(d) answering Ok leaves d a directory with
\* no entry, whatever files and subdirectories it held at any depth; on a
\* directory without entries it answers Ok and d is as before; on a path
\* that names nothing it answers an error.
C23_ClearLeavesAnEmptyDirectory ==
    Applied("clear_directory_contents") =>
        /\ out.status = "Ok" =>
              /\ arg.node.kind = "dir"
              /\ out.node.kind = "dir"
              /\ out.node.readonly = arg.node.readonly
              /\ Entries(out.node.tree) = {}
        /\ (arg.node.kind = "dir" /\ Entries(arg.node.tree) = {}) =>
              (out.status = "Ok" /\ out.node = arg.node)
        /\ arg.node.kind = "absent" =>
              (out.status # "Ok" /\ out.node = arg.node)

\* the directory of the test: a file and a subdirectory that holds a file
C23_Witness ==
    /\ Applied("clear_directory_contents")
    /\ arg.node.kind = "dir"
    /\ \E n \in Names : arg.node.tree[<<n>>] \in Contents
    /\ \E p \in Paths : Len(p) = 2 /\ arg.node.tree[p] \in Contents
    /\ out.status = "Ok"
    /\ Entries(out.node.tree) = {}

\* top-level names the destination held at the start and the source lacks
ForeignNames == {n \in Names : dst0[<<n>>] # "none" /\ src0[<<n>>] = "none"}

\* C24: transfer() called on a destination that holds an entry whose name is
\* not a top-level name of the source checks neither emptiness nor weekday:
\* the copy leaves that entry as it was, the comparison answers false, the
\* rollback then removes every destination entry, the earlier ones
\* included, and the source is never changed.
C24_TransferRollsBackAForeignDestination ==
    (caller = "test" /\ ForeignNames # {} /\ pc # "created") =>
        /\ calls["copy"] = 1
        /\ calls["validate"] = 0
        /\ calls["is_empty"] = 0
        /\ src = src0
        /\ pc \in {"copy", "compare"} =>
              \A n \in ForeignNames : dst[<<n>>] = dst0[<<n>>]
        /\ copyResult = "Ok" => calls["compare"] = 1 \/ pc = "compare"
        /\ matched # "none" => matched = "false"
        \* no I/O error and no digest mismatch in the run
        /\ (Done /\ fault = "none" /\ mismatch = <<>>) =>
              /\ copyResult = "Ok"
              /\ result = "IntegrityMismatch"
              /\ DirEmpty(dst)

C24_Witness ==
    /\ caller = "test"
    /\ ForeignNames # {}
    /\ Done
    /\ result = "IntegrityMismatch"
    /\ ~DirEmpty(src0)
    /\ src = src0
    /\ DirEmpty(dst)
    /\ matched = "false"

\* every regular file of the original source tree is, with its content, at
\* its path in the source or in the destination
NoFileLost ==
    \A p \in Paths :
        src0[p] \in Contents => (src[p] = src0[p] \/ dst[p] = src0[p])

\* C25: no data loss: in every state of a run each regular file of the
\* original source is at its path with its content in the source or in the
\* destination; the rollback runs only on an untouched source and the
\* source is cleared only while the destination holds the complete copy.
C25_NoDataLoss ==
    /\ NoFileLost
    /\ pc = "rollback" => src = src0
    /\ pc = "clear_source" =>
          \A p \in Paths : src0[p] # "none" => dst[p] = src0[p]

\* the source is half cleared: one file is gone from it and found in the
\* destination, another is still in the source
C25_Witness ==
    /\ pc = "clear_source"
    /\ \E p \in Paths : src0[p] \in Contents /\ src[p] = "none" /\ dst[p] = src0[p]
    /\ \E p \in Paths : src0[p] \in Contents /\ src[p] = src0[p]
    /\ NoFileLost

\* C26: when clearing the source fails, after a copy that returned Ok and a
\* comparison that returned true, transfer() returns that deletion error,
\* no rollback is run and the destination holds the complete copy.
C26_FailedSourceClearKeepsTheCopy ==
    fault = "clear_source" =>
        /\ Done
        /\ result = "OsError"
        /\ copyResult = "Ok"
        /\ matched = "true"
        /\ calls["rollback"] = 0
        /\ calls["clear_source"] = 1
        /\ \A p \in Paths : src0[p] # "none" => dst[p] = src0[p]

\* the deletion failed half way: the source has lost an entry and kept one
C26_Witness ==
    /\ fault = "clear_source"
    /\ Done
    /\ result = "OsError"
    /\ src # src0
    /\ ~DirEmpty(src)
    /\ DirEmpty(dst0)
    /\ dst = src0

\* the destination path the arguments of main render to
RenderedDestination == rendered_template(arg.destination, arg.date)

InService ==
    pc \in {"created", "validated", "copy", "compare", "rollback", "clear_source"}

\* C27: configuration construction creates the destination directory after
\* the source path is accepted and before the weekday token is parsed: a
\* construction that fails on the source leaves the disk as it was, one that
\* fails on the weekday token has created the directory, new and empty, and
\* a run that validate() rejects still has that empty directory on disk.
C27_DestinationIsCreatedBeforeTheWeekdayIsRead ==
    /\ [][pc = "start" =>
            /\ out'.build.failed = "source_directory_path" => fsys' = fsys
            /\ (out'.build.failed = "weekday" \/ out'.build.status = "Ok") =>
                  /\ Holds(fsys, RenderedDestination) = "absent"
                  /\ fsys'[RenderedDestination] = NewDirectory(FALSE)
                  /\ DirEmpty(dst')]_vars
    /\ []((out.run = 1 /\ pc = "rejected") =>
              /\ Holds(fsys, config.dest_directory_path) = "dir"
              /\ config.dest_directory_path = RenderedDestination
              /\ DirEmpty(dst))

\* an invalid weekday token: construction fails, the directory is there
C27_Witness ==
    /\ pc = "config_error"
    /\ out.run = 1
    /\ out.build.failed = "weekday"
    /\ result = "InvalidInput"
    /\ Holds(fsys, RenderedDestination) = "dir"
    /\ DirEmpty(dst)
    /\ ~DirEmpty(src)

\* C28: no step of validate() or transfer() changes what the destination
\* path names, so a second run with the same template on the same date,
\* after a first run whose configuration was built, fails in construction
\* with AlreadyExists, without validate() and with the source and
\* destination contents as the first run left them.
C28_SecondRunFindsTheDestination ==
    /\ [][InService => fsys' = fsys]_vars
    /\ []((out.run = 2 /\ out.first.status = "Ok") =>
              /\ pc = "config_error"
              /\ result = "AlreadyExists"
              /\ out.build.failed = "dest_directory_path"
              /\ calls["validate"] = 0
              /\ src = out.first.src
              /\ dst = out.first.dst
              /\ fsys = out.first.disk)

\* the second run after a first run that moved the tree
C28_Witness ==
    /\ out.run = 2
    /\ out.first.status = "Ok"
    /\ out.first.pc = "done"
    /\ out.first.result = "Ok"
    /\ result = "AlreadyExists"
    /\ ~DirEmpty(dst)
    /\ DirEmpty(src)

\* C29: in the flow of main the destination has no entry when validate()
\* runs, validate() never answers that the destination is not empty, and
\* without an I/O error its only rejection is the weekday mismatch.
C29_MainNeverFindsDestinationNotEmpty ==
    /\ pc = "created" => DirEmpty(dst)
    /\ result # "DestinationNotEmpty"
    /\ (pc = "rejected" /\ fault = "none") =>
          (result = "SchedulingMismatch" /\ now # WeekDayValue[weekday])

C29_Witness ==
    /\ pc = "rejected"
    /\ out.run = 1
    /\ result = "SchedulingMismatch"
    /\ calls["validate"] = 1
    /\ Holds(fsys, config.dest_directory_path) = "dir"
    /\ DirEmpty(dst)

====
